---- MODULE Spec2Model ----
(***************************************************************************)
(* Model of the contract deployment service of flow-cli:                   *)
(*   pkg/flowkit/services/project.go   Project.Deploy                      *)
(*   pkg/flowcli/project/transaction.go Transaction (build, roles, Sign)   *)
(* The preprocessor (import resolution, deployment order) and the state's  *)
(* conflict check are collaborators whose code is outside the sources; they *)
(* are modelled from the specification text.                               *)
(***************************************************************************)
EXTENDS Integers, Sequences, FiniteSets, TLC

\* ------------------------------------------------------------------ bounds
MaxContracts == 3
MaxDeployments == 2

\* ------------------------------------------------------------- value sets
Names    == 1..MaxContracts
NoName   == 0
Ext      == MaxContracts + 1
Accounts == {"acct1", "acct2"}
NoAcct   == "nobody"
NoCode   == "absent"
Codes    == {"v1", "v2"}

Range(s) == {s[i] : i \in 1..Len(s)}

\* names and networks of the configuration file
ConfigNames == {"FungibleToken", "FlowToken", "MyToken"}
Networks    == {"mainnet", "testnet"}
NoAlias     == "none"

\* ------------------------------------------------------------- variables
VARIABLES
    \* configuration and call parameters (inputs of one Deploy call)
    stateNil,       \* p.state == nil
    update,         \* the update parameter
    deployments,    \* DeploymentContractsByNetwork(network), in input order
    imports,        \* name -> names imported by the contract's source
    aliases,        \* AliasesForNetwork(network): names that have an alias
    nargs,          \* name -> number of constructor arguments
    accounts,       \* account names present in the configuration
    chain0,         \* the on-chain code when Deploy was called
    structure,      \* whether the inputs hold a cycle or an unresolved import
    \* the network behind the gateway
    chain,          \* account -> name -> deployed code (NoCode when absent)
    seq,            \* account -> sequence number of the account's key
    height,         \* number of blocks handed out by GetLatestBlock
    \* Deploy's locals
    pc, processor, orderedContracts, idx, deployErr, numOfUpdates,
    block, targetAccountInfo, tx, exists, sentTx, result,
    \* what Deploy exposes
    log,            \* logger output, in order
    calls,          \* gateway calls issued, in order
    ret,            \* return value of Deploy
    \* a Transaction in the hands of a caller of the builder (transaction.go)
    txn,            \* the Transaction
    before,         \* the Transaction as it was when Sign was last called
    signRet,        \* what the last Sign call returned
    \* the configuration behind p.state.Config() (standard-contract check)
    configContracts,    \* names defined in the contracts section
    configAliases,      \* name -> network -> alias address (NoAlias when none)
    configDeployments,  \* the deployments section: network, account, contracts
    config0,            \* the deployments and aliases when the check was called
    contracts,          \* CheckForStandardContractUsageOnMainnet: its contracts
    checked,            \* ... and how many of them the loop has gone through
    prompts,            \* the answers given to WantToUseMainnetVersionPrompt
    \* Project.Init: its parameters, its locals and the file system
    reset, global, serviceKey,
    homeDir,        \* whether os.UserHomeDir() succeeds
    path,           \* the path Init chose
    state,          \* the state flowkit.Init returned
    stored,         \* path -> the configuration stored there (NoFile when none)
    stored0,        \* the stored configurations when Init was called
    saves           \* the paths state.Save was called with, in order

cfgVars   == <<stateNil, update, deployments, imports, aliases, nargs, accounts,
               chain0, structure>>
netVars   == <<chain, seq, height>>
localVars == <<processor, orderedContracts, idx, deployErr, numOfUpdates,
               block, targetAccountInfo, tx, exists, sentTx, result>>
txVars    == <<txn, before, signRet>>
stdVars   == <<configContracts, configAliases, configDeployments, config0,
               contracts, checked, prompts>>
initVars  == <<reset, global, serviceKey, homeDir, path, state, stored, stored0,
               saves>>
vars      == <<cfgVars, netVars, pc, localVars, log, calls, ret, txVars, stdVars,
               initVars>>

\* ------------------------------------------------- configuration helpers
\* Units of the deployment set: the default assignment puts the first half
\* of the names on acct1 and the rest on acct2.
AccountOf(n) == IF 2 * n <= MaxContracts + 1 THEN "acct1" ELSE "acct2"

OtherAccount(a) == IF a = "acct1" THEN "acct2" ELSE "acct1"

Unit(n, a) == [name |-> n, account |-> a]

BaseDeployments == [i \in 1..MaxContracts |-> Unit(i, AccountOf(i))]

DeployedNames(deps) == {deps[i].name : i \in 1..Len(deps)}

\* contract.TranspiledCode(): the resolved source of a contract
TranspiledCode(n) == "v2"

\* bytes.Equal([]byte(code), existing)
BytesEqual(a, b) == a = b

\* State.ContractConflictExists(network): some contract name is assigned to
\* more than one account of the network
ContractConflictExists(deps) ==
    \E i, j \in 1..Len(deps) :
        /\ i # j
        /\ deps[i].name = deps[j].name
        /\ deps[i].account # deps[j].account

\* Preprocessor.ResolveImports: every import is bound either to the account
\* of a contract of the deployment set or to an alias of the network
UnresolvedImports(deps, imp, al) ==
    {<<n, m>> \in DeployedNames(deps) \X (Names \cup {Ext}) :
        m \in imp[n] /\ m \notin DeployedNames(deps) /\ m \notin al}

\* edges of the dependency graph: imports between contracts of the set
Edges(deps, imp) ==
    {<<n, m>> \in DeployedNames(deps) \X DeployedNames(deps) : m \in imp[n]}

\* Topological sort by repeated selection of the first contract, in input
\* order, all of whose imports inside the set are already placed.
RECURSIVE Kahn(_, _, _)
\* a sort that takes the last ready contract of the input instead
KahnLastReady(input, E, placed) ==
    LET done      == DeployedNames(placed)
        remaining == SelectSeq(input, LAMBDA u : u.name \notin done)
        ready     == SelectSeq(remaining, LAMBDA u :
                         \A m \in DeployedNames(input) :
                             <<u.name, m>> \in E => m \in done)
    IN  IF remaining = <<>> \/ ready = <<>> THEN placed
        ELSE Kahn(input, E, Append(placed, ready[Len(ready)]))

Kahn(input, E, placed) ==
    LET done      == DeployedNames(placed)
        remaining == SelectSeq(input, LAMBDA u : u.name \notin done)
        ready     == SelectSeq(remaining, LAMBDA u :
                         \A m \in DeployedNames(input) :
                             <<u.name, m>> \in E => m \in done)
    IN  IF remaining = <<>> \/ ready = <<>> THEN placed
        ELSE Kahn(input, E, Append(placed, Head(ready)))

\* Preprocessor.ContractDeploymentOrder: the plan, or an error on a cycle
DeploymentOrder(deps, imp) == Kahn(deps, Edges(deps, imp), <<>>)

HasCycle(deps, imp) == Len(DeploymentOrder(deps, imp)) < Len(deps)

\* the structural errors of a set of inputs
StructureOf(deps, imp, al) ==
    [cycle      |-> HasCycle(deps, imp),
     unresolved |-> UnresolvedImports(deps, imp, al) # {}]

\* ------------------------------------------------------------ Transaction
\* flow.NewTransaction(): no roles, no signatures
NoTx ==
    [kind |-> "none", name |-> NoName, code |-> NoCode, nargs |-> 0,
     authorizer |-> NoAcct, signer |-> NoAcct, payer |-> NoAcct,
     proposer |-> NoAcct, propSeq |-> 0, ref |-> 0,
     payloadSigs |-> {}, envelopeSigs |-> {}]

SetSigner(t, account) == [t EXCEPT !.signer = account]

SetPayer(t, address) == [t EXCEPT !.payer = address]

\* a reference to the first block of the run, whatever block was fetched
SetBlockReferenceFirstBlock(t, b) == [t EXCEPT !.ref = 1]

\* transaction.go 254-258
SetBlockReference(t, b) == [t EXCEPT !.ref = b]

\* a proposal key that always carries the sequence number of a new account
SetProposerFirstSequence(t, info) ==
    [t EXCEPT !.proposer = info.address, !.propSeq = 0]

\* proposer.Keys[keyIndex].SequenceNumber of the fetched account
SetProposer(t, info) ==
    [t EXCEPT !.proposer = info.address, !.propSeq = info.seq]

\* addAccountContractWithArgs
NewAddAccountContractTransaction(signer, n, source, args) ==
    SetPayer(SetSigner([NoTx EXCEPT !.kind = "add", !.name = n,
                                    !.code = source, !.nargs = args,
                                    !.authorizer = signer],
                       signer),
             signer)

\* templates.UpdateAccountContract + newTransactionFromTemplate
NewUpdateAccountContractTransaction(signer, n, source) ==
    SetPayer(SetSigner([NoTx EXCEPT !.kind = "update", !.name = n,
                                    !.code = source,
                                    !.authorizer = signer],
                       signer),
             signer)

\* a signer that always takes the envelope
shouldSignEnvelopeAlways(t) == TRUE

\* transaction.go 325-329
shouldSignEnvelope(t) == t.signer = t.payer

\* Transaction.Sign, when the signer is available and signing succeeds
Sign(t) ==
    IF shouldSignEnvelope(t)
    THEN [t EXCEPT !.envelopeSigs = @ \cup {t.signer}]
    ELSE [t EXCEPT !.payloadSigs = @ \cup {t.signer}]

\* ------------------------------------------------------------ bookkeeping
NoInfo == [address |-> NoAcct, seq |-> 0, contracts |-> [n \in Names |-> NoCode]]

Call(op, n, t, r) == [op |-> op, unit |-> n, tx |-> t, res |-> r]

Entry(n, kind, named, val) == [unit |-> n, kind |-> kind, named |-> named, val |-> val]

ErrorKinds == {"exists_no_update", "exists_with_args", "sign_error",
               "send_error", "result_error", "nil_result",
               "settle_error_update", "settle_error_deploy"}

SendCalls == {i \in 1..Len(calls) : calls[i].op = "SendSignedTransaction"}

Returned(ok, why) == [ok |-> ok, err |-> why]

\* --------------------------------------------- standard-contract check
\* project.go 128-184: the registry of standard contracts of mainnet (two of
\* its entries); Address.String() gives the hex digits without prefix
mainnetContracts ==
    [n \in {"FungibleToken", "FlowToken"} |->
        [name    |-> n,
         address |-> IF n = "FungibleToken" THEN "f233dcee88fe0abe"
                     ELSE "1654653399040a61"]]

Deployment(network, account, cs) ==
    [network |-> network, account |-> account, contracts |-> cs]

\* State.DeploymentContractsByNetwork(network): the contracts of the
\* deployments of the network, in the order of the configuration
RECURSIVE DeploymentContractsByNetwork(_, _)
DeploymentContractsByNetwork(deps, network) ==
    IF deps = <<>> THEN <<>>
    ELSE LET d    == Head(deps)
             here == IF d.network = network
                     THEN [i \in 1..Len(d.contracts) |->
                              [name |-> d.contracts[i], account |-> d.account]]
                     ELSE <<>>
         IN  here \o DeploymentContractsByNetwork(Tail(deps), network)

\* Contracts.ByNameAndNetwork(name, network) finds the contract when the
\* contracts section defines the name
ByNameAndNetwork(defined, name) == name \in defined

\* a removal that keeps s[0:ci] only
RemoveFirstTruncating(cs, name) ==
    IF \E i \in 1..Len(cs) : cs[i] = name
    THEN LET ci == CHOOSE i \in 1..Len(cs) :
                      cs[i] = name /\ \A j \in 1..(i - 1) : cs[j] # name
         IN  SubSeq(cs, 1, ci - 1)
    ELSE cs

\* append(s[0:ci], s[ci+1:]...) at the first ci whose name matches
RemoveFirst(cs, name) ==
    IF \E i \in 1..Len(cs) : cs[i] = name
    THEN LET ci == CHOOSE i \in 1..Len(cs) :
                      cs[i] = name /\ \A j \in 1..(i - 1) : cs[j] # name
         IN  SubSeq(cs, 1, ci - 1) \o SubSeq(cs, ci + 1, Len(cs))
    ELSE cs

\* the removal stopping at the first deployment that holds the contract
RemoveFromDeployFirstEntry(deps, name) ==
    [di \in 1..Len(deps) |->
        IF /\ deps[di].network = "mainnet"
           /\ \A dj \in 1..(di - 1) :
                 deps[dj].network # "mainnet" \/ name \notin Range(deps[dj].contracts)
        THEN [deps[di] EXCEPT !.contracts = RemoveFirst(@, name)]
        ELSE deps[di]]

\* project.go 111-122: the contract leaves every deployment of mainnet
RemoveFromDeploy(deps, name) ==
    [di \in 1..Len(deps) |->
        IF deps[di].network = "mainnet"
        THEN [deps[di] EXCEPT !.contracts = RemoveFirst(@, name)]
        ELSE deps[di]]

\* project.go 105-109: c.Alias = standardContract.Address.String()
ReplaceAlias(al, standardContract) ==
    [al EXCEPT ![standardContract.name]["mainnet"] = standardContract.address]

\* contract lists of a deployment: each name at most once, at most two names
ContractLists ==
    {<<>>} \cup {<<a>> : a \in ConfigNames}
           \cup {<<a, b>> : <<a, b>> \in {q \in ConfigNames \X ConfigNames : q[1] # q[2]}}

\* the deployments section: at most MaxDeployments entries, one per
\* (network, account)
RECURSIVE DeploymentSections(_)
DeploymentSections(k) ==
    IF k = 0 THEN {<<>>}
    ELSE LET shorter == DeploymentSections(k - 1)
         IN  shorter \cup
             {Append(deps, Deployment(nw, a, cs)) :
                 <<deps, nw, a, cs>> \in
                     {q \in shorter \X Networks \X Accounts \X ContractLists :
                         /\ Len(q[1]) = k - 1
                         /\ \A i \in 1..Len(q[1]) :
                               <<q[1][i].network, q[1][i].account>> # <<q[2], q[3]>>}}

NoAliases == [n \in ConfigNames |-> [nw \in Networks |-> NoAlias]]

\* no configuration in play
InitConfigIdle ==
    /\ configContracts = ConfigNames
    /\ configAliases = NoAliases
    /\ configDeployments = <<>>
    /\ config0 = [deployments |-> <<>>, aliases |-> NoAliases]
    /\ contracts = <<>>
    /\ checked = 0
    /\ prompts = <<>>

\* ------------------------------------------------------------ Project.Init
\* config.DefaultPath, and the two values of config.GlobalPath()
DefaultPath    == "flow.json"
HomePath       == "~/flow.json"
NoPath         == ""
Paths          == {DefaultPath, HomePath, NoPath}
NoFile         == "no file"
OldConfig      == "old configuration"
PartialWrite   == "partly written"
NoKey          == "nil"
NoState        == [emulatorKey |-> "none"]

\* config.GlobalPath(): the empty path when the home directory is unknown
GlobalPath(home) == IF home THEN HomePath ELSE NoPath

\* flowkit.Exists(path)
Exists(files, p) == p # NoPath /\ files[p] # NoFile

\* Init is not running
InitProjectIdle ==
    /\ reset = FALSE
    /\ global = FALSE
    /\ serviceKey = NoKey
    /\ homeDir = TRUE
    /\ path = NoPath
    /\ state = NoState
    /\ stored = [p \in Paths |-> NoFile]
    /\ stored0 = stored
    /\ saves = <<>>

\* ------------------------------------------------------------------- Init
\* import graphs among the contracts of the set: at most two imports each
InnerGraphs ==
    {g \in [Names -> {S \in SUBSET Names : Cardinality(S) <= 2}] :
        \A n \in Names : n \notin g[n]}

NoImports == [n \in Names |-> {}]

\* the first contract of the input imports the second
FirstImportsSecond == [n \in Names |-> IF n = 1 THEN {2} ELSE {}]

ChainOf(f) ==
    [a \in Accounts |-> [n \in Names |-> IF AccountOf(n) = a THEN f[n] ELSE NoCode]]

NoArgs == [n \in Names |-> 0]

InitLocals ==
    /\ pc = "start"
    /\ processor = <<>>
    /\ orderedContracts = <<>>
    /\ idx = 0
    /\ deployErr = FALSE
    /\ numOfUpdates = 0
    /\ block = 0
    /\ targetAccountInfo = NoInfo
    /\ tx = NoTx
    /\ exists = FALSE
    /\ sentTx = 0
    /\ result = "none"
    /\ log = <<>>
    /\ calls = <<>>
    /\ ret = Returned(FALSE, "running")
    /\ seq = [a \in Accounts |-> 0]
    /\ height = 0

\* any import graph, with or without an import from outside the set; the
\* contracts are already on-chain with the same code and updates are
\* requested
InitGraph ==
    /\ stateNil = FALSE
    /\ update = TRUE
    /\ deployments = BaseDeployments
    /\ \E g \in InnerGraphs, e \in {"none", "alias", "missing"} :
          /\ imports = IF e = "none" THEN g ELSE [g EXCEPT ![1] = @ \cup {Ext}]
          /\ aliases = IF e = "alias" THEN {Ext} ELSE {}
    /\ nargs = NoArgs
    /\ accounts = Accounts
    /\ chain = ChainOf([n \in Names |-> TranspiledCode(n)])

\* any on-chain state of the first three units, the units after them in the
\* state of the third, with and without constructor arguments
InitUnits ==
    /\ stateNil = FALSE
    /\ update \in BOOLEAN
    /\ deployments = BaseDeployments
    /\ imports = FirstImportsSecond
    /\ aliases = {}
    /\ nargs \in {NoArgs, [NoArgs EXCEPT ![1] = 1]}
    /\ accounts = Accounts
    /\ \E f \in [Names -> {NoCode} \cup Codes] :
          /\ \A n \in Names : n > 3 => f[n] = f[3]
          /\ chain = ChainOf(f)

\* a missing state, a missing account, a name assigned to two accounts
InitBroken ==
    /\ stateNil \in BOOLEAN
    /\ update \in BOOLEAN
    /\ deployments \in {BaseDeployments} \cup
           {Append(BaseDeployments, Unit(c, OtherAccount(AccountOf(c)))) : c \in Names}
    /\ imports = NoImports
    /\ aliases = {}
    /\ nargs = NoArgs
    /\ accounts \in {Accounts, {"acct1"}}
    /\ chain = ChainOf([n \in Names |-> NoCode])

InitTransaction ==
    /\ txn = NoTx
    /\ before = NoTx
    /\ signRet = "none"

Init ==
    /\ InitLocals
    /\ InitTransaction
    /\ InitConfigIdle
    /\ InitProjectIdle
    /\ InitGraph \/ InitUnits \/ InitBroken
    /\ chain0 = chain
    /\ structure = StructureOf(deployments, imports, aliases)

\* ---------------------------------------------------------------- actions
\* return nil, err
Return(why) ==
    /\ pc' = "done"
    /\ ret' = Returned(FALSE, why)

\* the loop walking the plan from its end
CurBackwards == orderedContracts[Len(orderedContracts) + 1 - idx]

\* the unit of the current iteration
Cur == orderedContracts[idx]

\* `continue`: the next iteration starts with fresh loop variables
Continue ==
    /\ pc' = "loop"
    /\ idx' = idx + 1
    /\ block' = 0
    /\ targetAccountInfo' = NoInfo
    /\ tx' = NoTx
    /\ exists' = FALSE
    /\ sentTx' = 0
    /\ result' = "none"

\* Deploy without the conflict check
CheckConflictSkipped ==
    /\ pc = "start"
    /\ IF stateNil THEN Return("ErrDoesNotExist")
       ELSE pc' = "load" /\ UNCHANGED ret
    /\ UNCHANGED <<initVars, stdVars, txVars, cfgVars, netVars, localVars, log, calls>>

\* project.go 217-225: nil state, then the conflict check
CheckConflict ==
    /\ pc = "start"
    /\ IF stateNil THEN Return("ErrDoesNotExist")
       ELSE IF ContractConflictExists(deployments) THEN Return("conflict")
       ELSE pc' = "load" /\ UNCHANGED ret
    /\ UNCHANGED <<initVars, stdVars, txVars, cfgVars, netVars, localVars, log, calls>>

\* project.go 236-239: DeploymentContractsByNetwork
LoadContracts ==
    /\ pc = "load"
    /\ \E ok \in BOOLEAN :
          IF ok THEN pc' = "add" /\ UNCHANGED ret
          ELSE Return("deployment_contracts_error")
    /\ UNCHANGED <<initVars, stdVars, txVars, cfgVars, netVars, localVars, log, calls>>

\* project.go 241-252: one round of the loop over contractsNetwork
AddContractSource ==
    /\ pc = "add"
    /\ Len(processor) < Len(deployments)
    /\ \E ok \in BOOLEAN :
          IF ok
          THEN /\ processor' = Append(processor, deployments[Len(processor) + 1])
               /\ UNCHANGED <<pc, ret>>
          ELSE Return("add_source_error") /\ UNCHANGED processor
    /\ UNCHANGED <<initVars, stdVars, txVars, cfgVars, netVars, orderedContracts, idx, deployErr,
                   numOfUpdates, block, targetAccountInfo, tx, exists, sentTx,
                   result, log, calls>>

\* project.go 254-258
ResolveImports ==
    /\ pc = "add"
    /\ Len(processor) = Len(deployments)
    /\ IF UnresolvedImports(processor, imports, aliases) # {}
       THEN Return("unresolved_import")
       ELSE pc' = "order" /\ UNCHANGED ret
    /\ UNCHANGED <<initVars, stdVars, txVars, cfgVars, netVars, localVars, log, calls>>

\* Deploy walking whatever order came back, the error ignored
ContractDeploymentOrderUnchecked ==
    /\ pc = "order"
    /\ orderedContracts' = DeploymentOrder(processor, imports)
    /\ idx' = 1
    /\ pc' = "loop"
    /\ UNCHANGED ret
    /\ UNCHANGED <<initVars, stdVars, txVars, cfgVars, netVars, processor, deployErr, numOfUpdates,
                   block, targetAccountInfo, tx, exists, sentTx, result,
                   log, calls>>

\* project.go 260-274
ContractDeploymentOrder ==
    /\ pc = "order"
    /\ IF HasCycle(processor, imports)
       THEN Return("cycle") /\ UNCHANGED <<orderedContracts, idx>>
       ELSE /\ orderedContracts' = DeploymentOrder(processor, imports)
            /\ idx' = 1
            /\ pc' = "loop"
            /\ UNCHANGED ret
    /\ UNCHANGED <<initVars, stdVars, txVars, cfgVars, netVars, processor, deployErr, numOfUpdates,
                   block, targetAccountInfo, tx, exists, sentTx, result,
                   log, calls>>

\* project.go 275-279
GetLatestBlock ==
    /\ pc = "loop"
    /\ idx <= Len(orderedContracts)
    /\ \E ok \in BOOLEAN :
          /\ calls' = Append(calls, Call("GetLatestBlock", Cur.name, NoTx,
                                         IF ok THEN "ok" ELSE "error"))
          /\ IF ok
             THEN /\ height' = height + 1
                  /\ block' = height + 1
                  /\ pc' = "account"
                  /\ UNCHANGED ret
             ELSE Return("get_block_error") /\ UNCHANGED <<height, block>>
    /\ UNCHANGED <<initVars, stdVars, txVars, cfgVars, chain, seq, processor, orderedContracts, idx,
                   deployErr, numOfUpdates, targetAccountInfo, tx, exists,
                   sentTx, result, log>>

\* project.go 281-291
GetAccount ==
    /\ pc = "account"
    /\ IF Cur.account \notin accounts
       THEN Return("account_not_found") /\ UNCHANGED <<calls, targetAccountInfo>>
       ELSE \E ok \in BOOLEAN :
               /\ calls' = Append(calls, Call("GetAccount", Cur.name, NoTx,
                                              IF ok THEN "ok" ELSE "error"))
               /\ IF ok
                  THEN /\ targetAccountInfo' =
                              [address   |-> Cur.account,
                               seq       |-> seq[Cur.account],
                               contracts |-> chain[Cur.account]]
                       /\ pc' = "decide"
                       /\ UNCHANGED ret
                  ELSE Return("get_account_error") /\ UNCHANGED targetAccountInfo
    /\ UNCHANGED <<initVars, stdVars, txVars, cfgVars, netVars, processor, orderedContracts, idx,
                   deployErr, numOfUpdates, block, tx, exists, sentTx,
                   result, log>>

\* the decision without the byte comparison: an existing contract is
\* always updated
DecisionNoDiffIgnored(ex, upd, na, noDiff) ==
    IF ex /\ ~upd THEN "exists_no_update"
    ELSE IF ex /\ na > 0 THEN "exists_with_args"
    ELSE IF ex THEN "update"
    ELSE "add"

\* the decision without the update flag: an existing contract is updated
\* whether or not updates were requested
DecisionFlagIgnored(ex, upd, na, noDiff) ==
    IF ex /\ na > 0 THEN "exists_with_args"
    ELSE IF ex THEN (IF noDiff THEN "no_diff" ELSE "update")
    ELSE "add"

\* the decision without the check of the constructor arguments: an existing
\* contract with arguments is compared and updated like any other
DecisionArgsIgnored(ex, upd, na, noDiff) ==
    IF ex /\ ~upd THEN "exists_no_update"
    ELSE IF ex THEN (IF noDiff THEN "no_diff" ELSE "update")
    ELSE "add"

\* project.go 307-335: what the loop does with a unit, from whether the
\* contract exists on the account, the update flag, the number of
\* constructor arguments and the byte comparison
Decision(ex, upd, na, noDiff) ==
    IF ex /\ ~upd THEN "exists_no_update"
    ELSE IF ex /\ na > 0 THEN "exists_with_args"
    ELSE IF ex THEN (IF noDiff THEN "no_diff" ELSE "update")
    ELSE "add"

\* project.go 293-341
Decide ==
    /\ pc = "decide"
    /\ \E keyOk \in BOOLEAN, propOk \in BOOLEAN :
       LET n        == Cur.name
           addTx    == NewAddAccountContractTransaction(
                           Cur.account, n, TranspiledCode(n), nargs[n])
           existing == targetAccountInfo.contracts[n]
           ex       == existing # NoCode
           noDiff   == BytesEqual(TranspiledCode(n), existing)
           d        == Decision(ex, update, nargs[n], noDiff)
           built    == IF d = "update"
                       THEN NewUpdateAccountContractTransaction(
                                Cur.account, n, TranspiledCode(n))
                       ELSE addTx
       IN  IF ~keyOk
           THEN /\ Return("build_error")
                /\ UNCHANGED <<idx, block, targetAccountInfo, tx, exists,
                               sentTx, result, deployErr, numOfUpdates, log>>
           ELSE IF d \in {"exists_no_update", "exists_with_args"}
           THEN /\ log' = Append(log, Entry(n, d, TRUE, 0))
                /\ deployErr' = TRUE
                /\ Continue
                /\ UNCHANGED <<numOfUpdates, ret>>
           ELSE IF d = "no_diff"
           THEN /\ log' = Append(log, Entry(n, d, TRUE, 0))
                /\ Continue
                /\ UNCHANGED <<deployErr, numOfUpdates, ret>>
           ELSE /\ numOfUpdates' = IF d = "update" THEN numOfUpdates + 1
                                   ELSE numOfUpdates
                /\ IF ~propOk
                   THEN /\ Return("proposer_error")
                        /\ UNCHANGED <<tx, exists>>
                   ELSE /\ tx' = SetProposer(SetBlockReference(built, block),
                                             targetAccountInfo)
                        /\ exists' = ex
                        /\ pc' = "sign"
                        /\ UNCHANGED ret
                /\ UNCHANGED <<idx, block, targetAccountInfo, sentTx, result,
                               deployErr, log>>
    /\ UNCHANGED <<initVars, stdVars, txVars, cfgVars, netVars, processor, orderedContracts, calls>>

\* a signing failure that is logged but does not set deployErr
SignTxErrorNotFlagged ==
    /\ pc = "sign"
    /\ \E ok \in BOOLEAN :
          IF ok
          THEN /\ tx' = Sign(tx)
               /\ pc' = "send"
               /\ UNCHANGED <<idx, block, targetAccountInfo, exists, sentTx,
                              result, log>>
          ELSE /\ log' = Append(log, Entry(Cur.name, "sign_error", TRUE, 0))
               /\ Continue
    /\ UNCHANGED <<initVars, stdVars, txVars, cfgVars, netVars, processor, orderedContracts,
                   numOfUpdates, calls, ret, deployErr>>

\* project.go 343-348
SignTx ==
    /\ pc = "sign"
    /\ \E ok \in BOOLEAN :
          IF ok
          THEN /\ tx' = Sign(tx)
               /\ pc' = "send"
               /\ UNCHANGED <<idx, block, targetAccountInfo, exists, sentTx,
                              result, deployErr, log>>
          ELSE /\ log' = Append(log, Entry(Cur.name, "sign_error", TRUE, 0))
               /\ deployErr' = TRUE
               /\ Continue
    /\ UNCHANGED <<initVars, stdVars, txVars, cfgVars, netVars, processor, orderedContracts,
                   numOfUpdates, calls, ret>>

\* a submission failure that ends the run
SendSignedTransactionAborting ==
    /\ pc = "send"
    /\ \E ok \in BOOLEAN :
          /\ calls' = Append(calls, Call("SendSignedTransaction", Cur.name, tx,
                                         IF ok THEN "ok" ELSE "error"))
          /\ IF ok
             THEN /\ sentTx' = Cardinality(SendCalls) + 1
                  /\ pc' = "result"
                  /\ UNCHANGED <<idx, block, targetAccountInfo, tx, exists,
                                 result, deployErr, log, ret>>
             ELSE /\ log' = Append(log, Entry(Cur.name, "send_error", TRUE, 0))
                  /\ deployErr' = TRUE
                  /\ Return("send_error")
                  /\ UNCHANGED <<idx, block, targetAccountInfo, tx, exists,
                                 result, sentTx>>
    /\ UNCHANGED <<initVars, stdVars, txVars, cfgVars, netVars, processor, orderedContracts,
                   numOfUpdates>>

\* a submission that does not wait for the result of the transaction
SendSignedTransactionNoWait ==
    /\ pc = "send"
    /\ \E ok \in BOOLEAN :
          /\ calls' = Append(calls, Call("SendSignedTransaction", Cur.name, tx,
                                         IF ok THEN "ok" ELSE "error"))
          /\ IF ok
             THEN /\ Continue
                  /\ UNCHANGED <<deployErr, log>>
             ELSE /\ log' = Append(log, Entry(Cur.name, "send_error", TRUE, 0))
                  /\ deployErr' = TRUE
                  /\ Continue
    /\ UNCHANGED <<initVars, stdVars, txVars, cfgVars, netVars, processor, orderedContracts,
                   numOfUpdates, ret>>

\* a submission that is tried again when the gateway returns an error
SendSignedTransactionRetrying ==
    /\ pc = "send"
    /\ \E ok \in BOOLEAN :
          /\ calls' = Append(calls, Call("SendSignedTransaction", Cur.name, tx,
                                         IF ok THEN "ok" ELSE "error"))
          /\ IF ok
             THEN /\ sentTx' = Cardinality(SendCalls) + 1
                  /\ pc' = "result"
                  /\ UNCHANGED <<idx, block, targetAccountInfo, tx, exists,
                                 result, deployErr, log>>
             ELSE UNCHANGED <<pc, idx, block, targetAccountInfo, tx, exists,
                              result, sentTx, deployErr, log>>
    /\ UNCHANGED <<initVars, stdVars, txVars, cfgVars, netVars, processor, orderedContracts,
                   numOfUpdates, ret>>

\* project.go 350-360
SendSignedTransaction ==
    /\ pc = "send"
    /\ \E ok \in BOOLEAN :
          /\ calls' = Append(calls, Call("SendSignedTransaction", Cur.name, tx,
                                         IF ok THEN "ok" ELSE "error"))
          /\ IF ok
             THEN /\ sentTx' = Cardinality(SendCalls) + 1
                  /\ pc' = "result"
                  /\ UNCHANGED <<idx, block, targetAccountInfo, tx, exists,
                                 result, deployErr, log>>
             ELSE /\ log' = Append(log, Entry(Cur.name, "send_error", TRUE, 0))
                  /\ deployErr' = TRUE
                  /\ Continue
    /\ UNCHANGED <<initVars, stdVars, txVars, cfgVars, netVars, processor, orderedContracts,
                   numOfUpdates, ret>>

\* what the network did with a submitted transaction
Sealed(t) ==
    /\ chain' = [chain EXCEPT ![t.authorizer][t.name] = t.code]
    /\ seq' = [seq EXCEPT ![t.proposer] = @ + 1]

Rejected(t) ==
    /\ seq' = [seq EXCEPT ![t.proposer] = @ + 1]
    /\ UNCHANGED chain

\* project.go 362-405
GetTransactionResult ==
    /\ pc = "result"
    /\ \E r \in {"transport_error", "nil", "rejected", "sealed"} :
          /\ calls' = Append(calls, Call("GetTransactionResult", Cur.name, NoTx, r))
          /\ CASE r = "transport_error" ->
                    /\ log' = Append(log, Entry(Cur.name, "result_error", TRUE, 0))
                    /\ deployErr' = TRUE
                    /\ Sealed(tx) \/ UNCHANGED <<chain, seq>>
               [] r = "nil" ->
                    /\ log' = Append(log, Entry(Cur.name, "nil_result", FALSE, 0))
                    /\ deployErr' = TRUE
                    /\ Sealed(tx) \/ UNCHANGED <<chain, seq>>
               [] r = "rejected" ->
                    /\ deployErr' = TRUE
                    /\ log' = Append(log, Entry(Cur.name,
                                  IF exists /\ update THEN "settle_error_update"
                                  ELSE "settle_error_deploy", TRUE, 0))
                    /\ Rejected(tx)
               [] r = "sealed" ->
                    /\ log' = IF ~deployErr
                              THEN Append(log, Entry(Cur.name,
                                       IF exists /\ update THEN "success_update"
                                       ELSE "success_deploy", TRUE, sentTx))
                              ELSE log
                    /\ Sealed(tx)
                    /\ UNCHANGED deployErr
          /\ Continue
    /\ UNCHANGED <<initVars, stdVars, txVars, cfgVars, height, processor, orderedContracts,
                   numOfUpdates, ret>>

\* a summary that reports the number of updates also after a failure
SummaryCountingAlways ==
    /\ pc = "loop"
    /\ idx > Len(orderedContracts)
    /\ pc' = "done"
    /\ LET counted == IF update /\ numOfUpdates > 0
                      THEN Append(log, Entry(NoName, "updated_count", FALSE,
                                             numOfUpdates))
                      ELSE log
       IN  IF ~deployErr
           THEN /\ log' = Append(counted, Entry(NoName, "all_deployed", FALSE, 0))
                /\ ret' = Returned(TRUE, "nil")
           ELSE /\ log' = Append(counted, Entry(NoName, "failed_to_deploy_all",
                                                FALSE, 0))
                /\ ret' = Returned(FALSE, "failed_to_deploy_all")
    /\ UNCHANGED <<initVars, stdVars, txVars, cfgVars, netVars, localVars, calls>>

\* project.go 408-419
Summary ==
    /\ pc = "loop"
    /\ idx > Len(orderedContracts)
    /\ pc' = "done"
    /\ IF ~deployErr
       THEN /\ log' = (IF update /\ numOfUpdates > 0
                       THEN Append(log, Entry(NoName, "updated_count", FALSE, numOfUpdates))
                       ELSE log)
                      \o <<Entry(NoName, "all_deployed", FALSE, 0)>>
            /\ ret' = Returned(TRUE, "nil")
       ELSE /\ log' = Append(log, Entry(NoName, "failed_to_deploy_all", FALSE, 0))
            /\ ret' = Returned(FALSE, "failed_to_deploy_all")
    /\ UNCHANGED <<initVars, stdVars, txVars, cfgVars, netVars, localVars, calls>>

\* project.go 416, 419: the contracts Deploy hands back with its error
ReturnedContracts == IF ret.ok THEN orderedContracts ELSE <<>>

Next ==
    \/ CheckConflict
    \/ LoadContracts
    \/ AddContractSource
    \/ ResolveImports
    \/ ContractDeploymentOrder
    \/ GetLatestBlock
    \/ GetAccount
    \/ Decide
    \/ SignTx
    \/ SendSignedTransaction
    \/ GetTransactionResult
    \/ Summary

Spec == Init /\ [][Next]_vars

\* Deploy on a plan that loads and sorts without error: the loop alone
InitExecutor ==
    /\ InitLocals
    /\ InitTransaction
    /\ InitConfigIdle
    /\ InitProjectIdle
    /\ InitUnits
    /\ chain0 = chain
    /\ structure = StructureOf(deployments, imports, aliases)

SpecExecutor == InitExecutor /\ [][Next]_vars

\* ------------------------------------------- the Transaction builder alone
\* transaction.go 45-49, 75-99: a caller obtains a Transaction
NewTransaction ==
    /\ \E a \in Accounts, na \in 0..1, k \in {"none", "add", "update"} :
          txn' = CASE k = "none"   -> NoTx
                 [] k = "add"    -> NewAddAccountContractTransaction(a, 1, TranspiledCode(1), na)
                 [] k = "update" -> NewUpdateAccountContractTransaction(a, 1, TranspiledCode(1))
    /\ before' = NoTx
    /\ signRet' = "none"
    /\ UNCHANGED <<initVars, stdVars, cfgVars, netVars, pc, localVars, log, calls, ret>>

\* transaction.go 223-232: the key is validated first
CallSetSigner ==
    /\ \E a \in Accounts, valid \in BOOLEAN :
          txn' = IF valid THEN SetSigner(txn, a) ELSE txn
    /\ UNCHANGED <<before, signRet>>
    /\ UNCHANGED <<initVars, stdVars, cfgVars, netVars, pc, localVars, log, calls, ret>>

\* transaction.go 248-252
CallSetPayer ==
    /\ \E a \in Accounts : txn' = SetPayer(txn, a)
    /\ UNCHANGED <<before, signRet>>
    /\ UNCHANGED <<initVars, stdVars, cfgVars, netVars, pc, localVars, log, calls, ret>>

\* transaction.go 302-323: the signer may be unavailable, signing may fail
CallSign ==
    /\ txn.signer # NoAcct
    /\ before' = txn
    /\ \E ok \in BOOLEAN :
          IF ok THEN txn' = Sign(txn) /\ signRet' = "ok"
          ELSE txn' = txn /\ signRet' = "error"
    /\ UNCHANGED <<initVars, stdVars, cfgVars, netVars, pc, localVars, log, calls, ret>>

NextTransaction ==
    \/ NewTransaction
    \/ CallSetSigner
    \/ CallSetPayer
    \/ CallSign

InitIdle ==
    /\ stateNil = FALSE
    /\ update = FALSE
    /\ deployments = BaseDeployments
    /\ imports = NoImports
    /\ aliases = {}
    /\ nargs = NoArgs
    /\ accounts = Accounts
    /\ chain = ChainOf([n \in Names |-> NoCode])

InitBuilder ==
    /\ InitLocals
    /\ InitTransaction
    /\ InitConfigIdle
    /\ InitProjectIdle
    /\ InitIdle
    /\ chain0 = chain
    /\ structure = StructureOf(deployments, imports, aliases)

SpecTransaction == InitBuilder /\ [][NextTransaction]_vars

\* ------------------------------------- the standard-contract check alone
\* project.go 103-124
ReplaceStandardContractReferenceToAlias(standardContract) ==
    IF ~ByNameAndNetwork(configContracts, standardContract.name)
    THEN /\ Return("contract_not_found")
         /\ UNCHANGED <<configAliases, configDeployments, checked>>
    ELSE /\ configAliases' = ReplaceAlias(configAliases, standardContract)
         /\ configDeployments' = RemoveFromDeploy(configDeployments,
                                                  standardContract.name)
         /\ checked' = checked + 1
         /\ UNCHANGED <<pc, ret>>

\* project.go 186-189
CheckStart ==
    /\ pc = "start"
    /\ LET cs == DeploymentContractsByNetwork(configDeployments, "mainnet")
       IN  IF \E i \in 1..Len(cs) : ~ByNameAndNetwork(configContracts, cs[i].name)
           THEN Return("contract_not_found") /\ UNCHANGED contracts
           ELSE contracts' = cs /\ pc' = "prompt" /\ UNCHANGED ret
    /\ UNCHANGED <<initVars, cfgVars, netVars, localVars, log, calls, txVars,
                   configContracts, configAliases, configDeployments, config0,
                   checked, prompts>>

\* project.go 191-207: one round of the loop over contracts
CheckContract ==
    /\ pc = "prompt"
    /\ checked < Len(contracts)
    /\ LET contract == contracts[checked + 1]
       IN  IF contract.name \notin DOMAIN mainnetContracts
           THEN /\ checked' = checked + 1
                /\ UNCHANGED <<pc, ret, log, prompts, configAliases,
                               configDeployments>>
           ELSE LET standardContract == mainnetContracts[contract.name]
                IN  /\ log' = log \o
                          <<Entry(contract.name, "trying_to_deploy", TRUE, 0),
                            Entry(contract.name, "already_deployed_at", FALSE,
                                  standardContract.address),
                            Entry(contract.name, "read_more", FALSE, 0)>>
                    /\ \E answer \in BOOLEAN :
                          /\ prompts' = Append(prompts, [name   |-> contract.name,
                                                         answer |-> answer])
                          /\ IF answer
                             THEN ReplaceStandardContractReferenceToAlias(
                                      standardContract)
                             ELSE /\ checked' = checked + 1
                                  /\ UNCHANGED <<pc, ret, configAliases,
                                                 configDeployments>>
    /\ UNCHANGED <<initVars, cfgVars, netVars, localVars, calls, txVars, configContracts,
                   config0, contracts>>

\* project.go 208
CheckReturn ==
    /\ pc = "prompt"
    /\ checked = Len(contracts)
    /\ pc' = "done"
    /\ ret' = Returned(TRUE, "nil")
    /\ UNCHANGED <<initVars, cfgVars, netVars, localVars, log, calls, txVars, stdVars>>

NextStandard ==
    \/ CheckStart
    \/ CheckContract
    \/ CheckReturn

\* any deployments section, with or without an alias on another network
\* and with or without a contract missing from the contracts section
InitStandard ==
    /\ InitLocals
    /\ InitTransaction
    /\ InitIdle
    /\ InitProjectIdle
    /\ chain0 = chain
    /\ structure = StructureOf(deployments, imports, aliases)
    /\ configContracts \in {ConfigNames, ConfigNames \ {"FlowToken"}}
    /\ configAliases \in
           {NoAliases,
            [NoAliases EXCEPT !["FungibleToken"]["testnet"] = "9a0766d93b6608b7"]}
    /\ configDeployments \in DeploymentSections(MaxDeployments)
    /\ config0 = [deployments |-> configDeployments, aliases |-> configAliases]
    /\ contracts = <<>>
    /\ checked = 0
    /\ prompts = <<>>

SpecStandard == InitStandard /\ [][NextStandard]_vars

\* ------------------------------------------------------ Project.Init alone
\* Init without the check for an existing configuration
ProjectInitPathUnguarded ==
    /\ pc = "start"
    /\ path' = IF global THEN GlobalPath(homeDir) ELSE DefaultPath
    /\ pc' = "create"
    /\ UNCHANGED ret
    /\ UNCHANGED <<cfgVars, netVars, localVars, log, calls, txVars, stdVars,
                   reset, global, serviceKey, homeDir, state, stored, stored0,
                   saves>>

\* project.go 67-77
ProjectInitPath ==
    /\ pc = "start"
    /\ LET chosen == IF global THEN GlobalPath(homeDir) ELSE DefaultPath
       IN  /\ path' = chosen
           /\ IF Exists(stored, chosen) /\ ~reset
              THEN Return("configuration_already_exists")
              ELSE pc' = "create" /\ UNCHANGED ret
    /\ UNCHANGED <<cfgVars, netVars, localVars, log, calls, txVars, stdVars,
                   reset, global, serviceKey, homeDir, state, stored, stored0,
                   saves>>

\* project.go 79-86: flowkit.Init, then the emulator key when one is given
ProjectInitState ==
    /\ pc = "create"
    /\ \E ok \in BOOLEAN :
          IF ok
          THEN /\ state' = [emulatorKey |-> IF serviceKey # NoKey THEN serviceKey
                                            ELSE "generated"]
               /\ pc' = "save"
               /\ UNCHANGED ret
          ELSE Return("init_error") /\ UNCHANGED state
    /\ UNCHANGED <<cfgVars, netVars, localVars, log, calls, txVars, stdVars,
                   reset, global, serviceKey, homeDir, path, stored, stored0,
                   saves>>

\* project.go 88-93: state.Save(path); a failed Save leaves the file as it
\* was or partly written, and nothing can be written at the empty path
ProjectInitSave ==
    /\ pc = "save"
    /\ saves' = Append(saves, path)
    /\ pc' = "done"
    /\ \E ok \in BOOLEAN :
          IF ok /\ path # NoPath
          THEN /\ stored' = [stored EXCEPT ![path] = state]
               /\ ret' = Returned(TRUE, "nil")
          ELSE /\ ret' = Returned(FALSE, "save_error")
               /\ \/ UNCHANGED stored
                  \/ path # NoPath /\ stored' = [stored EXCEPT ![path] = PartialWrite]
    /\ UNCHANGED <<cfgVars, netVars, localVars, log, calls, txVars, stdVars,
                   reset, global, serviceKey, homeDir, path, state, stored0>>

NextProjectInit ==
    \/ ProjectInitPath
    \/ ProjectInitState
    \/ ProjectInitSave

\* any parameters, with and without a configuration at either path
InitProject ==
    /\ InitLocals
    /\ InitTransaction
    /\ InitIdle
    /\ InitConfigIdle
    /\ chain0 = chain
    /\ structure = StructureOf(deployments, imports, aliases)
    /\ reset \in BOOLEAN
    /\ global \in BOOLEAN
    /\ serviceKey \in {NoKey, "given"}
    /\ homeDir \in BOOLEAN
    /\ path = NoPath
    /\ state = NoState
    /\ stored \in {f \in [Paths -> {NoFile, OldConfig}] : f[NoPath] = NoFile}
    /\ stored0 = stored
    /\ saves = <<>>

SpecProjectInit == InitProject /\ [][NextProjectInit]_vars

\* ================================================================ claims
\* the units Deploy has started on, in order (each iteration starts with
\* GetLatestBlock)
Visited == SelectSeq(calls, LAMBDA c : c.op = "GetLatestBlock")

PlanName(i) == orderedContracts[i].name

\* C1: with an acyclic import graph, Deploy walks the units in an order in
\* which every contract comes after all contracts of the set it imports,
\* and the plan holds each unit of the set exactly once.
C1_TopologicalOrder ==
    idx >= 1 =>
        LET V == Visited IN
        /\ \A p \in 1..Len(V) :
              /\ V[p].unit = PlanName(p)
              /\ \A m \in imports[V[p].unit] \cap Names :
                    \E q \in 1..(p - 1) : V[q].unit = m
        /\ Len(orderedContracts) = Len(deployments)
        /\ Range(orderedContracts) = Range(deployments)
        /\ \A i, j \in 1..Len(orderedContracts) :
              PlanName(i) \in imports[PlanName(j)] => i < j

C1_Witness ==
    /\ Len(Visited) = MaxContracts
    /\ orderedContracts # deployments
    /\ \E n \in Names : Cardinality(imports[n] \cap Names) = 2

\* C2: when the import graph has a cycle or a unit has an unresolved import,
\* Deploy returns an error, no gateway call is issued and no part of an
\* order is walked.
C2_StructuralErrorBeforeNetwork ==
    (structure.cycle \/ structure.unresolved) =>
        /\ calls = <<>>
        /\ log = <<>>
        /\ orderedContracts = <<>>
        /\ idx = 0
        /\ pc = "done" => ~ret.ok

C2_Witness == pc = "done" /\ ret.err = "cycle"

\* C3: when a contract name is assigned to more than one account of the
\* network, Deploy fails with the conflict error before any contract is
\* added to the processor, before planning and before any gateway call.
C3_ConflictRejectedFirst ==
    (~stateNil /\ ContractConflictExists(deployments)) =>
        /\ processor = <<>>
        /\ orderedContracts = <<>>
        /\ calls = <<>>
        /\ pc \in {"start", "done"}
        /\ pc = "done" => ret = Returned(FALSE, "conflict")

C3_Witness == pc = "done" /\ ret.err = "conflict"

\* the units whose iteration of the loop is over
Processed(n) == \E i \in 1..Len(orderedContracts) : i < idx /\ PlanName(i) = n

LogKinds(n) == {log[i].kind : i \in {j \in 1..Len(log) : log[j].unit = n}}

\* what the logger reported about a unit
Outcome(n) ==
    LET K == LogKinds(n) IN
    IF K \cap ErrorKinds # {} THEN "failed"
    ELSE IF "no_diff" \in K THEN "skipped"
    ELSE IF "success_update" \in K THEN "updated"
    ELSE IF "success_deploy" \in K THEN "deployed"
    ELSE "none"

SendsFor(n) ==
    {i \in 1..Len(calls) : calls[i].op = "SendSignedTransaction" /\ calls[i].unit = n}

ResultsFor(n) ==
    {calls[i].res : i \in {j \in 1..Len(calls) :
        calls[j].op = "GetTransactionResult" /\ calls[j].unit = n}}

OnChain0(n) == chain0[AccountOf(n)][n]

\* C4, as claimed: every unit already deployed with byte-identical code and
\* without constructor arguments ends skipped-no-diff, and no transaction is
\* sent for it.
C4_Idempotence ==
    \A n \in Names :
        (OnChain0(n) = TranspiledCode(n) /\ nargs[n] = 0 /\ Processed(n)) =>
            Outcome(n) = "skipped" /\ SendsFor(n) = {}

\* C4, amended: such a unit ends skipped-no-diff when updates were requested
\* and failed (exists, update not requested) when they were not; in both
\* cases no transaction is sent for it.
C4_IdempotenceWhenUpdating ==
    \A n \in Names :
        (OnChain0(n) = TranspiledCode(n) /\ nargs[n] = 0 /\ Processed(n)) =>
            /\ SendsFor(n) = {}
            /\ update => Outcome(n) = "skipped"
            /\ ~update => LogKinds(n) = {"exists_no_update"}

C4_Witness ==
    \E n \in Names :
        /\ Processed(n) /\ OnChain0(n) = TranspiledCode(n) /\ nargs[n] = 0
        /\ update
        /\ Outcome(n) = "skipped"
        /\ \E m \in Names : Outcome(m) = "deployed"

\* C5: a unit present on-chain with different code, update requested, no
\* constructor arguments: one transaction is submitted for it (none when
\* signing fails), it is an update transaction, and when its settlement
\* succeeds the unit is reported updated.
C5_UpdatePath ==
    update =>
    \A n \in Names :
        (nargs[n] = 0 /\ OnChain0(n) \notin {NoCode, TranspiledCode(n)}
            /\ Processed(n)) =>
            /\ \/ Cardinality(SendsFor(n)) = 1
               \/ "sign_error" \in LogKinds(n)
            /\ \A i \in SendsFor(n) : calls[i].tx.kind = "update"
            /\ "sealed" \in ResultsFor(n) => Outcome(n) = "updated"

\* C6: a successful Sign adds the signer's signature to exactly one section,
\* the envelope when the signer is the payer and the payload otherwise, and
\* leaves the other section alone; a failed Sign signs nothing.
C6_SignsOneSection ==
    /\ signRet = "ok" =>
          IF before.signer = before.payer
          THEN /\ txn.envelopeSigs = before.envelopeSigs \cup {before.signer}
               /\ txn.payloadSigs = before.payloadSigs
          ELSE /\ txn.payloadSigs = before.payloadSigs \cup {before.signer}
               /\ txn.envelopeSigs = before.envelopeSigs
    /\ signRet = "error" =>
          /\ txn.envelopeSigs = before.envelopeSigs
          /\ txn.payloadSigs = before.payloadSigs

C6_Witness ==
    /\ signRet = "ok"
    /\ before.signer = before.payer
    /\ before.payloadSigs # {}
    /\ before.signer \notin before.payloadSigs
    /\ txn.envelopeSigs = {before.signer}

FatalKinds == {"get_block_error", "account_not_found", "get_account_error",
               "build_error", "proposer_error"}

\* C7: a step that records a unit as failed (exists without update, exists
\* with arguments, signing, submission, await transport error, nil result,
\* settlement error) leaves Deploy at the head of the loop on the next
\* unit, whose attempt is the next thing Deploy does; Deploy ends inside
\* the plan only on an error that is none of these failures.
C7_FailureDoesNotAbort ==
    /\ [][(Len(log') = Len(log) + 1 /\ log'[Len(log')].kind \in ErrorKinds) =>
            /\ pc' = "loop"
            /\ idx' = idx + 1
            /\ ret' = ret
            /\ orderedContracts' = orderedContracts]_vars
    /\ [][(pc = "loop" /\ idx <= Len(orderedContracts)) =>
            /\ Len(calls') = Len(calls) + 1
            /\ calls'[Len(calls')].op = "GetLatestBlock"
            /\ calls'[Len(calls')].unit = PlanName(idx)]_vars
    /\ [](pc = "done" /\ idx \in 1..Len(orderedContracts) => ret.err \in FatalKinds)

C7_Witness ==
    /\ pc = "done"
    /\ idx > Len(orderedContracts)
    /\ Len(Visited) = MaxContracts
    /\ LogKinds(PlanName(1)) = {"send_error"}
    /\ LogKinds(PlanName(2)) = {"exists_with_args"}

\* C8: an error of a gateway call of a unit, and an account that is not
\* found, never ends Deploy inside that unit.
C8_TransportErrorIsPerUnit ==
    (pc = "done" /\ idx \in 1..Len(orderedContracts)) =>
        /\ ret.err # "account_not_found"
        /\ \A i \in 1..Len(calls) :
              calls[i].unit = PlanName(idx) =>
                  calls[i].res \notin {"error", "transport_error"}

\* C9: when the whole plan was walked, Deploy returns an error exactly when
\* some unit was reported failed; skipped units do not fail the run.
C9_ErrorIffUnitFailed ==
    (pc = "done" /\ idx > Len(orderedContracts)) =>
        /\ ret.ok <=> ~(\E n \in Names : Outcome(n) = "failed")
        /\ (\A n \in Names : Outcome(n) \in {"deployed", "updated", "skipped"})
              => ret.ok

C9_Witness ==
    /\ pc = "done"
    /\ idx > Len(orderedContracts)
    /\ ret.ok
    /\ \E n \in Names : Outcome(n) = "skipped"
    /\ \E n \in Names : Outcome(n) = "updated"

\* the units whose transaction settled without error
Settled(n) == "sealed" \in ResultsFor(n)

\* C10: a unit present on-chain with different code, update not requested,
\* ends failed without a transaction, the run fails, and the units that
\* settled keep their code: exactly one transaction was ever sent for each
\* of them and their code is on-chain.
C10_NoUpdateNoRollback ==
    ~update =>
    \A n \in Names :
        (OnChain0(n) \notin {NoCode, TranspiledCode(n)} /\ Processed(n)) =>
            /\ LogKinds(n) = {"exists_no_update"}
            /\ SendsFor(n) = {}
            /\ pc = "done" => ~ret.ok
            /\ \A m \in Names : Settled(m) =>
                  /\ Cardinality(SendsFor(m)) = 1
                  /\ chain[AccountOf(m)][m] = TranspiledCode(m)

C10_Witness ==
    /\ pc = "done"
    /\ idx > Len(orderedContracts)
    /\ ~update
    /\ OnChain0(PlanName(2)) \notin {NoCode, TranspiledCode(PlanName(2))}
    /\ Settled(PlanName(1))
    /\ OnChain0(PlanName(1)) = NoCode

\* the position of a unit in the plan
PlanPos(n) == CHOOSE i \in 1..Len(orderedContracts) : PlanName(i) = n

ResultCalls == {i \in 1..Len(calls) : calls[i].op = "GetTransactionResult"}

\* C11: the gateway calls are issued one unit at a time in plan order: the
\* call after a successful submission is the await of that same transaction,
\* the first call of a unit is issued only when the unit before it has
\* failed, was skipped or has settled, and at most one submitted transaction
\* is not yet settled.
C11_OneUnitAtATime ==
    /\ \A i \in 1..(Len(calls) - 1) :
          LET a == calls[i]
              b == calls[i + 1]
          IN  /\ PlanPos(a.unit) <= PlanPos(b.unit)
              /\ (a.op = "SendSignedTransaction" /\ a.res = "ok") =>
                    (b.op = "GetTransactionResult" /\ b.unit = a.unit)
              /\ a.unit # b.unit =>
                    /\ b.op = "GetLatestBlock"
                    /\ PlanPos(b.unit) = PlanPos(a.unit) + 1
                    /\ \/ LogKinds(a.unit) \cap (ErrorKinds \cup {"no_diff"}) # {}
                       \/ Settled(a.unit)
    /\ Cardinality({i \in SendCalls : calls[i].res = "ok"})
           - Cardinality(ResultCalls) \in {0, 1}

C11_Witness ==
    /\ pc = "done"
    /\ Cardinality(ResultCalls) = MaxContracts
    /\ \A n \in Names : Settled(n)

\* the standard contracts the user chose to take from mainnet
Confirmed == {prompts[i].name : i \in {j \in 1..Len(prompts) : prompts[j].answer}}

MainnetDeployed(deps) ==
    {u.name : u \in Range(DeploymentContractsByNetwork(deps, "mainnet"))}

\* C12: once the user has confirmed for a standard contract of the mainnet
\* deployment set, no deployment of mainnet holds the contract, on whatever
\* account it was, its mainnet alias is the address of the registry, and
\* the contracts a Deploy on mainnet would load do not include it.
C12_ConfirmedStandardContract ==
    \A n \in Confirmed :
        /\ n \in DOMAIN mainnetContracts
        /\ n \in MainnetDeployed(config0.deployments)
        /\ \A di \in 1..Len(configDeployments) :
              configDeployments[di].network = "mainnet" =>
                  n \notin Range(configDeployments[di].contracts)
        /\ configAliases[n]["mainnet"] = mainnetContracts[n].address
        /\ n \notin MainnetDeployed(configDeployments)

C12_Witness ==
    /\ pc = "done"
    /\ ret.ok
    /\ "FungibleToken" \in Confirmed
    /\ Cardinality({di \in 1..Len(config0.deployments) :
           /\ config0.deployments[di].network = "mainnet"
           /\ "FungibleToken" \in Range(config0.deployments[di].contracts)}) = 2
    /\ "MyToken" \in MainnetDeployed(configDeployments)

\* C13: when the plan was walked to its end, also with a failed unit, the
\* caller is handed the ordered units, the number of updates is reported,
\* and every unit whose transaction settled is reported deployed or updated.
C13_OutcomesReportedRegardless ==
    (pc = "done" /\ idx > Len(orderedContracts) /\ orderedContracts # <<>>) =>
        /\ ReturnedContracts = orderedContracts
        /\ (update /\ numOfUpdates > 0) =>
              \E i \in 1..Len(log) :
                  log[i].kind = "updated_count" /\ log[i].val = numOfUpdates
        /\ \A n \in Names : Settled(n) => Outcome(n) \in {"deployed", "updated"}

\* C14: the plan is determined by the contract set, the import edges and
\* the input order alone: each position of the plan holds the first
\* contract, in input order, that is not yet placed and whose imports
\* inside the set are all placed; any two runs on the same input therefore
\* walk the same plan.
C14_DeterministicPlan ==
    idx >= 1 =>
        \A p \in 1..Len(orderedContracts) :
            LET placed   == {PlanName(q) : q \in 1..(p - 1)}
                Ready(i) == /\ deployments[i].name \notin placed
                            /\ (imports[deployments[i].name] \cap Names) \subseteq placed
            IN  \E i \in 1..Len(deployments) :
                    /\ orderedContracts[p] = deployments[i]
                    /\ Ready(i)
                    /\ \A j \in 1..(i - 1) : ~Ready(j)

C14_Witness ==
    /\ idx >= 1
    /\ imports[1] \cap Names = {3}
    /\ imports[2] = {} /\ imports[3] = {}
    /\ PlanName(1) = 2
    /\ PlanName(2) = 3
    /\ pc = "done"

\* the rows of the decision table of the specification, the first row that
\* applies taken
TableRow(present, updateRequested, withArgs, identical) ==
    IF ~present THEN "add"
    ELSE IF ~updateRequested THEN "failed: update not requested"
    ELSE IF withArgs THEN "failed: constructor arguments"
    ELSE IF identical THEN "skipped-no-diff"
    ELSE "update"

\* C15: what Deploy did with a unit is what the decision table says for
\* the unit's combination of (present on-chain, update requested,
\* constructor arguments, identical code): the two failed rows and the
\* skip are logged as such and nothing is submitted; the add row submits
\* only an add transaction carrying the unit's code and arguments, the
\* update row only an update transaction carrying the unit's code.
C15_DecisionTable ==
    \A n \in Names :
        Processed(n) =>
            LET row == TableRow(OnChain0(n) # NoCode, update, nargs[n] > 0,
                                OnChain0(n) = TranspiledCode(n))
                K   == LogKinds(n)
                S   == SendsFor(n)
                Built(kind, na) ==
                    /\ K \cap {"exists_no_update", "exists_with_args", "no_diff"} = {}
                    /\ Cardinality(S) = IF "sign_error" \in K THEN 0 ELSE 1
                    /\ \A i \in S :
                          /\ calls[i].tx.kind = kind
                          /\ calls[i].tx.name = n
                          /\ calls[i].tx.code = TranspiledCode(n)
                          /\ calls[i].tx.nargs = na
            IN  CASE row = "add" -> Built("add", nargs[n])
                  [] row = "failed: update not requested" ->
                         K = {"exists_no_update"} /\ S = {}
                  [] row = "failed: constructor arguments" ->
                         K = {"exists_with_args"} /\ S = {}
                  [] row = "skipped-no-diff" -> K = {"no_diff"} /\ S = {}
                  [] row = "update" -> Built("update", 0)

C15_Witness ==
    /\ pc = "done"
    /\ update
    /\ OnChain0(1) = TranspiledCode(1)
    /\ LogKinds(1) = {"exists_with_args"}
    /\ LogKinds(2) = {"no_diff"}
    /\ OnChain0(3) \notin {NoCode, TranspiledCode(3)}
    /\ \E i \in SendsFor(3) : calls[i].tx.kind = "update"

\* the steps of the protocol in the order the claim gives them: an account
\* fetch follows the successful block fetch of its unit, a submission
\* follows the successful account fetch of its unit and carries a signed
\* transaction that refers to a fetched block, an await follows the
\* successful submission of its unit, and a transaction is signed only
\* with the block and the account at hand
ProtocolOrder ==
    /\ \A i \in 1..Len(calls) :
          LET c == calls[i]
              After(op) == /\ i >= 2
                           /\ calls[i - 1].op = op
                           /\ calls[i - 1].res = "ok"
                           /\ calls[i - 1].unit = c.unit
          IN  /\ c.op = "GetAccount" => After("GetLatestBlock")
              /\ c.op = "SendSignedTransaction" =>
                    /\ After("GetAccount")
                    /\ c.tx.envelopeSigs \cup c.tx.payloadSigs # {}
                    /\ c.tx.ref \in 1..height
              /\ c.op = "GetTransactionResult" => After("SendSignedTransaction")
    /\ tx.envelopeSigs \cup tx.payloadSigs # {} =>
          /\ block # 0
          /\ targetAccountInfo # NoInfo
          /\ pc \in {"send", "result"}

\* how the iteration of a unit ended
Terminals(n) ==
    LET K == LogKinds(n) IN
    (IF "no_diff" \in K THEN {"skipped"} ELSE {})
        \cup (IF K \cap ErrorKinds # {} THEN {"failed"} ELSE {})
        \cup (IF Settled(n) THEN {"settled"} ELSE {})

\* C16: the steps of a unit come in the order of the protocol, and every
\* unit Deploy has started on and left, or was in when Deploy returned,
\* ended in exactly one of skipped, failed and settled.
C16_PerUnitProtocol ==
    /\ ProtocolOrder
    /\ \A n \in Names :
          ((\E i \in 1..Len(calls) : calls[i].unit = n)
              /\ (Processed(n) \/ pc = "done")) =>
              Cardinality(Terminals(n)) = 1

\* the units Deploy has left have exactly one terminal outcome
TerminalWhenLeft ==
    \A n \in Names : Processed(n) => Cardinality(Terminals(n)) = 1

\* C17: a transaction Deploy submits has the unit's target account as
\* proposer and as authorizer and the signer's account as payer, and its
\* proposal key carries the sequence number that the account fetch of the
\* same unit returned, which is the number the account has on the network
\* at the submission.
C17_TransactionRoles ==
    /\ \A i \in SendCalls :
          LET t == calls[i].tx
              a == AccountOf(calls[i].unit)
          IN  /\ t.proposer = a
              /\ t.authorizer = a
              /\ t.payer = t.signer
              /\ t.signer = a
    /\ pc \in {"send", "result"} =>
          /\ tx.propSeq = targetAccountInfo.seq
          /\ targetAccountInfo.address = AccountOf(PlanName(idx))
          /\ calls[Len(calls)].op = "SendSignedTransaction" =>
                calls[Len(calls)].tx.propSeq = seq[tx.proposer]
          /\ pc = "send" => tx.propSeq = seq[tx.proposer]

C17_Witness ==
    /\ pc = "result"
    /\ tx.propSeq = 1
    /\ tx.proposer = "acct1"
    /\ Cardinality({n \in Names : Settled(n) /\ AccountOf(n) = "acct1"}) = 1
    /\ calls[Len(calls)].tx.propSeq = 1

\* C18: the block a submitted transaction refers to is the block returned
\* by the GetLatestBlock call of the unit's own iteration: it is the latest
\* block fetched before the submission, the fetch was made for this unit,
\* and every call between the fetch and the submission is a call of this
\* unit, so the fetch comes after all calls of the earlier units.
C18_FreshBlockPerUnit ==
    \A i \in SendCalls :
        LET fetches == {j \in 1..i : calls[j].op = "GetLatestBlock"
                                        /\ calls[j].res = "ok"}
        IN  /\ calls[i].tx.ref = Cardinality(fetches)
            /\ \E j \in fetches :
                  /\ \A k \in fetches : k <= j
                  /\ \A k \in j..i : calls[k].unit = calls[i].unit
                  /\ \A k \in 1..(j - 1) : calls[k].unit # calls[i].unit

C18_Witness ==
    /\ pc = "done"
    /\ {calls[i].tx.ref : i \in SendCalls} = 1..MaxContracts
    /\ \E n \in Names : "send_error" \in LogKinds(n)

\* the identifier the gateway gave to the transaction submitted for a unit
TxIdOf(n) ==
    LET i == CHOOSE j \in SendsFor(n) : calls[j].res = "ok"
    IN  Cardinality({j \in SendCalls : j <= i})

\* C19: a unit whose transaction was submitted and whose settlement result
\* came back without error is reported deployed, or updated when the
\* contract existed and updates were requested, together with the
\* identifier of its transaction, whatever happened to the units before it.
C19_SuccessMarkedIndependently ==
    \A n \in Names :
        (Processed(n) /\ Settled(n)) =>
            \E i \in 1..Len(log) :
                /\ log[i].unit = n
                /\ log[i].kind = IF OnChain0(n) # NoCode /\ update
                                 THEN "success_update" ELSE "success_deploy"
                /\ log[i].val = TxIdOf(n)

\* a unit that settled first, or after units that did not fail, is reported
SuccessMarkedWithoutEarlierFailure ==
    \A n \in Names :
        (Processed(n) /\ Settled(n)
            /\ \A m \in Names : (Processed(m) /\ PlanPos(m) < PlanPos(n)) =>
                                    LogKinds(m) \cap ErrorKinds = {}) =>
            \E i \in 1..Len(log) :
                /\ log[i].unit = n
                /\ log[i].kind = IF OnChain0(n) # NoCode /\ update
                                 THEN "success_update" ELSE "success_deploy"
                /\ log[i].val = TxIdOf(n)

\* C20: nothing is retried: no gateway operation is called twice for the
\* same unit, so each unit is visited once and has at most one submission,
\* and once a gateway call of a unit returned an error or a nil result no
\* further gateway call is made for that unit.
C20_NothingRetried ==
    \A i \in 1..Len(calls) :
        \A j \in (i + 1)..Len(calls) :
            /\ ~(calls[i].op = calls[j].op /\ calls[i].unit = calls[j].unit)
            /\ calls[i].res \in {"error", "transport_error", "nil"} =>
                  calls[j].unit # calls[i].unit

C20_Witness ==
    /\ pc = "done"
    /\ LogKinds(PlanName(1)) = {"send_error"}
    /\ LogKinds(PlanName(2)) = {"nil_result"}
    /\ LogKinds(PlanName(3)) = {"result_error"}
    /\ Len(calls) = 3 * MaxContracts + 2

\* C21: every failure Deploy logs for a unit names the contract of the
\* unit that failed, the unit of the iteration then running, and tells the
\* cause; this for each of the failure branches.
C21_FailureNamesContractAndCause ==
    \A i \in 1..Len(log) :
        log[i].kind \in ErrorKinds =>
            /\ log[i].named
            /\ Processed(log[i].unit)

\* every failure but the nil settlement result names its contract
FailureNamedUnlessNilResult ==
    \A i \in 1..Len(log) :
        (log[i].kind \in ErrorKinds \ {"nil_result"}) =>
            /\ log[i].named
            /\ Processed(log[i].unit)

\* the names the user was asked about and declined every time
Declined == {prompts[i].name : i \in 1..Len(prompts)} \ Confirmed

\* C22: the check changes only what was confirmed.  While nothing is
\* confirmed the deployments and the aliases are as they were, and a
\* declined contract stays in the mainnet deployment set with its alias
\* untouched.  After confirmations the deployments of the other networks
\* are as they were, and every mainnet deployment keeps its account and
\* its other contracts, in their order.
C22_OnlyConfirmedChanges ==
    /\ Confirmed = {} =>
          /\ configDeployments = config0.deployments
          /\ configAliases = config0.aliases
    /\ \A n \in Declined :
          /\ n \in MainnetDeployed(configDeployments)
          /\ configAliases[n] = config0.aliases[n]
    /\ Len(configDeployments) = Len(config0.deployments)
    /\ \A di \in 1..Len(configDeployments) :
          LET d  == configDeployments[di]
              d0 == config0.deployments[di]
          IN  IF d0.network # "mainnet" THEN d = d0
              ELSE /\ d.network = d0.network
                   /\ d.account = d0.account
                   /\ d.contracts =
                          SelectSeq(d0.contracts, LAMBDA c : c \notin Confirmed)

C22_Witness ==
    /\ pc = "done"
    /\ Confirmed = {"FungibleToken"}
    /\ Declined = {"FlowToken"}
    /\ \E di \in 1..Len(configDeployments) :
          /\ config0.deployments[di].contracts = <<"FungibleToken", "FlowToken">>
          /\ configDeployments[di].contracts = <<"FlowToken">>
    /\ \E di \in 1..Len(configDeployments) :
          /\ configDeployments[di].network = "testnet"
          /\ "FungibleToken" \in Range(configDeployments[di].contracts)

\* the units whose update transaction was submitted and settled without
\* error
UpdatedUnits ==
    {n \in Names : /\ Settled(n)
                   /\ \E i \in SendsFor(n) : calls[i].tx.kind = "update"}

\* C23: the number of updated contracts is reported only when updates were
\* requested and no unit failed, and the number reported is the number of
\* units whose update transaction was submitted and settled without error.
C23_UpdateCountIsSettledUpdates ==
    \A i \in 1..Len(log) :
        log[i].kind = "updated_count" =>
            /\ update
            /\ ret.ok
            /\ \A n \in Names : Outcome(n) # "failed"
            /\ log[i].val = Cardinality(UpdatedUnits)
            /\ log[i].val = numOfUpdates

C23_Witness ==
    /\ pc = "done"
    /\ \E i \in 1..Len(log) : log[i].kind = "updated_count" /\ log[i].val = 2
    /\ \E n \in Names : Outcome(n) = "deployed"

\* whether a configuration was at the chosen path when Init was called
ExistedAtChosenPath ==
    Exists(stored0, IF global THEN GlobalPath(homeDir) ELSE DefaultPath)

\* with an existing configuration and without reset Init returns an error,
\* calls no Save and leaves every stored configuration as it was
NoOverwriteWithoutReset ==
    (ExistedAtChosenPath /\ ~reset) =>
        /\ saves = <<>>
        /\ stored = stored0
        /\ pc \in {"start", "done"}
        /\ pc = "done" => ret = Returned(FALSE, "configuration_already_exists")

\* C24, as claimed: no overwrite without reset, and with reset or without
\* an existing configuration Init saves exactly once.
C24_InitNoOverwriteUnlessReset ==
    /\ NoOverwriteWithoutReset
    /\ (pc = "done" /\ (reset \/ ~ExistedAtChosenPath)) => Len(saves) = 1

\* C24, amended: no overwrite without reset; with reset or without an
\* existing configuration Init calls Save exactly once, with the chosen
\* path, when flowkit.Init succeeded, and not at all when it failed; a Save
\* touches the chosen path only.
C24_InitSavesOnceWhenCreated ==
    /\ NoOverwriteWithoutReset
    /\ (pc = "done" /\ (reset \/ ~ExistedAtChosenPath)) =>
          IF ret.err = "init_error" THEN saves = <<>> /\ stored = stored0
          ELSE saves = <<path>>
    /\ Len(saves) <= 1
    /\ \A p \in Paths : p # path => stored[p] = stored0[p]
    /\ ret.ok => stored[path] = state

C24_Witness ==
    /\ pc = "done"
    /\ ret.ok
    /\ reset /\ global
    /\ stored0[HomePath] = OldConfig
    /\ stored0[DefaultPath] = OldConfig
    /\ stored[HomePath] = [emulatorKey |-> "given"]
    /\ saves = <<HomePath>>

====
